---- MODULE Spec2Model ----
(***************************************************************************)
(* Model of the wallet session state machine of @hazbase/react             *)
(* (src/src/context/WalletContext.tsx).  The Session is the React state    *)
(* `state`; every async callback is a task that is suspended at its await  *)
(* points; the injected wallet (globalThis.ethereum), the RPC endpoints    *)
(* and localStorage are the environment.                                   *)
(***************************************************************************)
EXTENDS Integers, Sequences, FiniteSets, Bags, TLC

\* ---------------------------------------------------------------- bounds
MaxTasks == 2
MaxListeners == 2
MaxRestores == 2

\* ------------------------------------------------------------ the types
NoChainId == 0

NoChain == [id |-> NoChainId, name |-> "null", rpcUrls |-> <<>>]

NoProvider == [kind |-> "null", url |-> "null"]

NoSigner == [kind |-> "null", key |-> "null", address |-> "null", provider |-> NoProvider]

BrowserProvider == [kind |-> "BrowserProvider", url |-> "ethereum"]

JsonRpcProvider(rpcUrl) == [kind |-> "JsonRpcProvider", url |-> rpcUrl]

JsonRpcSigner(provider, address) ==
  [kind |-> "JsonRpcSigner", key |-> "null", address |-> address, provider |-> provider]

\* address of a private key (Wallet.getAddress)
Derive(privKey) ==
  CASE privKey = "K1" -> "0xC1"
    [] privKey = "K2" -> "0xC2"
    [] OTHER -> "null"

Wallet(privKey, provider) ==
  [kind |-> "Wallet", key |-> privKey, address |-> Derive(privKey), provider |-> provider]

\* ------------------------------------------------- inputs and environment
\* the { privKey, rpcUrl } arguments connectGuest is called with
GuestParams ==
  { [privKey |-> "K1", rpcUrl |-> "https://rpc.a"],
    [privKey |-> "K2", rpcUrl |-> "https://rpc.b"] }

\* chain id an RPC endpoint reports (provider.getNetwork on a JsonRpcProvider)
RpcChainId(rpcUrl) ==
  CASE rpcUrl = "https://rpc.a" -> 1
    [] rpcUrl = "https://rpc.b" -> 999
    [] OTHER -> NoChainId

\* the Chain Directory handed to WalletProvider
knownChains ==
  << [id |-> 1, name |-> "Mainnet", rpcUrls |-> <<"https://rpc.a">>],
     [id |-> 137, name |-> "Polygon", rpcUrls |-> <<"https://polygon-rpc">>] >>

\* ChainConfig values handed to switchChain / addChain
Targets ==
  { knownChains[1],
    [id |-> 137, name |-> "Polygon", rpcUrls |-> <<"https://rpc.b">>],
    [id |-> 137, name |-> "Polygon", rpcUrls |-> <<>>] }

\* account lists the injected wallet exposes (most preferred first)
AccountLists == { <<>>, <<"0xA1">>, <<"0xA2", "0xA1">> }

\* ------------------------------------------------------------- the state
VARIABLES
  state,        \* the Session (useState<WalletState>)
  storage,      \* localStorage slot "@hazbase/react:last-connector"
  listeners,    \* accountsChanged/chainChanged listener pairs bound on ethereum
  tasks,        \* bag of suspended async callbacks
  ethPresent,   \* globalThis.ethereum?.request exists
  ethAccounts,  \* accounts the injected wallet exposes
  ethChain,     \* chain the injected wallet is on
  ethKnown,     \* chains the injected wallet knows
  last,         \* the call that returned or threw in the last step, and its outcome
  autoConnect,  \* the autoConnect prop of WalletProvider
  freshChains,  \* the knownChains prop is a new array on every render
  effectDue,    \* a render changed the dependencies of the auto-connect effect
  restores      \* connectMetaMask calls the auto-connect effect has made

vars == <<state, storage, listeners, tasks, ethPresent, ethAccounts, ethChain, ethKnown, last,
          autoConnect, freshChains, effectDue, restores>>

InitialSession ==
  [status |-> "disconnected", connector |-> "null", provider |-> NoProvider,
   signer |-> NoSigner, account |-> "null", chainId |-> NoChainId, chain |-> NoChain]

NoTask ==
  [kind |-> "null", pc |-> "null", target |-> NoChain, key |-> "null",
   provider |-> NoProvider, account |-> "null", chainId |-> NoChainId,
   reqs |-> <<>>, code |-> 0]

NewTask(kind, pc) == [NoTask EXCEPT !.kind = kind, !.pc = pc]

Spawn(t) == tasks (+) SetToBag({t})

Resume(t, u) == (tasks (-) SetToBag({t})) (+) SetToBag({u})

Finish(t) == tasks (-) SetToBag({t})

Suspended(kind, pc) == { t \in BagToSet(tasks) : t.kind = kind /\ t.pc = pc }

InFlight(kind) == { t \in BagToSet(tasks) : t.kind = kind }

\* how many callbacks of a kind are suspended
Pending(kind) == BagCardinality([t \in InFlight(kind) |-> CopiesIn(t, tasks)])

Copies(t, n) == IF n = 0 THEN EmptyBag ELSE [x \in {t} |-> n]

\* the operation a callback belongs to
OpOf(t) ==
  IF t.kind \in {"switchChain/metamask", "switchChain/guest"} THEN "switchChain" ELSE t.kind

\* the outcome of a call as its caller sees it
Outcome(op, result) ==
  [op |-> op, result |-> result, again |-> (op = "disconnect" /\ last.op = op)]

Quiet == [op |-> "none", result |-> "none", again |-> FALSE]

\* a provider mounted with autoConnect = false (the default) on an empty
\* persisted slot: the auto-connect effect returns at line 207 whenever it runs
Init ==
  /\ state = InitialSession
  /\ storage = "null"
  /\ listeners = 0
  /\ tasks = EmptyBag
  /\ ethPresent \in BOOLEAN
  /\ ethAccounts \in AccountLists
  /\ ethChain = 1
  /\ ethKnown = {1}
  /\ last = Quiet
  /\ autoConnect = FALSE
  /\ freshChains = FALSE
  /\ effectDue = FALSE
  /\ restores = 0

\* ------------------------------------------------------- Chain Directory
RECURSIVE Find(_, _)
Find(chains, id) ==
  IF chains = <<>> THEN NoChain
  ELSE IF Head(chains).id = id THEN Head(chains)
  ELSE Find(Tail(chains), id)

resolveChain(id) ==
  IF id = NoChainId THEN NoChain ELSE Find(knownChains, id)

\* chain id read through a provider handle (provider.getNetwork)
getNetwork(provider) ==
  IF provider.kind = "BrowserProvider" THEN ethChain ELSE RpcChainId(provider.url)

\* ------------------------------------------------ the setState updaters
Connecting(s) == [s EXCEPT !.status = "connecting"]

\* a not-found path that leaves the status as the call set it
NotFoundStaysConnecting(s) == s

NotFound(s) == [s EXCEPT !.status = "disconnected"]

Connected(connector, provider, signer, account, chainId) ==
  [status |-> "connected", connector |-> connector, provider |-> provider,
   signer |-> signer, account |-> account, chainId |-> chainId,
   chain |-> resolveChain(chainId)]

\* accounts?.[0] ?? null
FirstAccount(accounts) == IF accounts = <<>> THEN "null" ELSE Head(accounts)

\* a handler that commits the Session of the connect that bound it
onAccountsFromSnapshot(s, accounts) ==
  [status |-> "connected", connector |-> "metamask", provider |-> BrowserProvider,
   signer |-> s.signer, account |-> FirstAccount(accounts), chainId |-> s.chainId,
   chain |-> s.chain]

onAccounts(s, accounts) == [s EXCEPT !.account = FirstAccount(accounts)]

\* the update with the chain metadata left as it was
NetworkCommitStaleChain(s, chainId) == [s EXCEPT !.chainId = chainId]

NetworkCommit(s, chainId) ==
  [s EXCEPT !.chainId = chainId, !.chain = resolveChain(chainId)]

\* the bound listeners run on an accountsChanged notification
EmitAccounts(s, accounts) == IF listeners > 0 THEN onAccounts(s, accounts) ELSE s

\* ------------------------------------------------------- connectMetaMask
\* lines 70-77: up to the first await
ConnectMetaMask ==
  /\ IF ~ethPresent
       THEN /\ state' = NotFound(Connecting(state))
            /\ last' = Outcome("connectMetaMask", "METAMASK_NOT_FOUND")
            /\ UNCHANGED tasks
       ELSE /\ BagCardinality(tasks) < MaxTasks
            /\ listeners + Pending("connectMetaMask") < MaxListeners
            /\ state' = Connecting(state)
            /\ tasks' = Spawn(NewTask("connectMetaMask", "eth_requestAccounts"))
            /\ last' = Quiet
  /\ UNCHANGED <<storage, listeners, ethPresent, ethAccounts, ethChain, ethKnown>>

\* line 77: the wallet grants access (unlocking its accounts when it has to)
RequestAccountsGranted ==
  \E t \in Suspended("connectMetaMask", "eth_requestAccounts") :
  \E accounts \in AccountLists \ {<<>>} :
    /\ ethAccounts # <<>> => accounts = ethAccounts
    /\ ethAccounts' = accounts
    /\ state' = IF accounts # ethAccounts THEN EmitAccounts(state, accounts) ELSE state
    /\ tasks' = Resume(t, [t EXCEPT !.pc = "getSigner"])
    /\ last' = Quiet
    /\ UNCHANGED <<storage, listeners, ethPresent, ethChain, ethKnown>>

\* line 77: the user rejects the request; the rejection leaves connectMetaMask
RequestAccountsRejected ==
  \E t \in Suspended("connectMetaMask", "eth_requestAccounts") :
    /\ tasks' = Finish(t)
    /\ last' = Outcome("connectMetaMask", "USER_REJECTED")
    /\ UNCHANGED <<state, storage, listeners, ethPresent, ethAccounts, ethChain, ethKnown>>

\* lines 78-80: provider.getSigner() answers with the wallet's first account;
\* signer.getAddress() returns the address the signer holds, so it resolves
\* before anything else is scheduled, and provider.getNetwork() is sent
GetSigner ==
  \E t \in Suspended("connectMetaMask", "getSigner") :
    /\ ethAccounts # <<>>
    /\ tasks' = Resume(t, [t EXCEPT !.pc = "getNetwork", !.account = Head(ethAccounts),
                                   !.provider = BrowserProvider])
    /\ last' = Quiet
    /\ UNCHANGED <<state, storage, listeners, ethPresent, ethAccounts, ethChain, ethKnown>>

\* line 78: no account is left to sign for
GetSignerFails ==
  \E t \in Suspended("connectMetaMask", "getSigner") :
    /\ ethAccounts = <<>>
    /\ tasks' = Finish(t)
    /\ last' = Outcome("connectMetaMask", "NO_ACCOUNT")
    /\ UNCHANGED <<state, storage, listeners, ethPresent, ethAccounts, ethChain, ethKnown>>

\* a pending provider.getNetwork() rejects; nothing catches it
NetworkFails ==
  \E t \in BagToSet(tasks) :
    /\ t.pc = "getNetwork"
    /\ tasks' = Finish(t)
    /\ last' = IF t.kind = "onChain" THEN Quiet ELSE Outcome(OpOf(t), "NETWORK_ERROR")
    /\ UNCHANGED <<state, storage, listeners, ethPresent, ethAccounts, ethChain, ethKnown>>

\* lines 80-92: getNetwork() resolves and the rest of connectMetaMask runs
ConnectMetaMaskCommit ==
  \E t \in Suspended("connectMetaMask", "getNetwork") :
    /\ listeners' = listeners + 1
    /\ storage' = "metamask"
    /\ state' = Connected("metamask", BrowserProvider,
                          JsonRpcSigner(BrowserProvider, t.account), t.account,
                          getNetwork(t.provider))
    /\ tasks' = Finish(t)
    /\ last' = Outcome("connectMetaMask", "ok")
    /\ UNCHANGED <<ethPresent, ethAccounts, ethChain, ethKnown>>

\* ---------------------------------------------------------- connectGuest
\* lines 96-101: up to provider.getNetwork(); wallet.getAddress() computes the
\* address from the key, so it resolves before anything else is scheduled
ConnectGuest ==
  \E params \in GuestParams :
    /\ BagCardinality(tasks) < MaxTasks
    /\ state' = Connecting(state)
    /\ tasks' = Spawn([NewTask("connectGuest", "getNetwork") EXCEPT
                         !.key = params.privKey, !.account = Derive(params.privKey),
                         !.provider = JsonRpcProvider(params.rpcUrl)])
    /\ last' = Quiet
    /\ UNCHANGED <<storage, listeners, ethPresent, ethAccounts, ethChain, ethKnown>>

\* a commit that leaves the persisted slot as it was
ConnectGuestCommitNoSlot ==
  \E t \in Suspended("connectGuest", "getNetwork") :
    /\ state' = Connected("guest", t.provider, Wallet(t.key, t.provider), t.account,
                          getNetwork(t.provider))
    /\ tasks' = Finish(t)
    /\ last' = Outcome("connectGuest", "ok")
    /\ UNCHANGED <<storage, listeners, ethPresent, ethAccounts, ethChain, ethKnown>>

\* lines 101-112: getNetwork() resolves and the rest of connectGuest runs
ConnectGuestCommit ==
  \E t \in Suspended("connectGuest", "getNetwork") :
    /\ storage' = "guest"
    /\ state' = Connected("guest", t.provider, Wallet(t.key, t.provider), t.account,
                          getNetwork(t.provider))
    /\ tasks' = Finish(t)
    /\ last' = Outcome("connectGuest", "ok")
    /\ UNCHANGED <<listeners, ethPresent, ethAccounts, ethChain, ethKnown>>

\* ------------------------------------------------------------ disconnect
\* a disconnect that only marks the Session disconnected
DisconnectedStatusOnly == [state EXCEPT !.status = "disconnected", !.connector = "null"]

\* lines 117-125: the Session disconnect() commits
Disconnected ==
  [status |-> "disconnected", connector |-> "null", provider |-> NoProvider,
   signer |-> NoSigner, account |-> "null", chainId |-> NoChainId, chain |-> NoChain]

\* lines 115-126
disconnect ==
  /\ storage' = "null"
  /\ state' = Disconnected
  /\ last' = Outcome("disconnect", "ok")
  /\ UNCHANGED <<listeners, tasks, ethPresent, ethAccounts, ethChain, ethKnown>>

\* -------------------------------------------------------- refreshNetwork
\* lines 129-130
refreshNetwork ==
  /\ IF state.provider = NoProvider
       THEN /\ last' = Outcome("refreshNetwork", "ok")
            /\ UNCHANGED tasks
       ELSE /\ BagCardinality(tasks) < MaxTasks
            /\ tasks' = Spawn([NewTask("refreshNetwork", "getNetwork") EXCEPT
                                 !.provider = state.provider])
            /\ last' = Quiet
  /\ UNCHANGED <<state, storage, listeners, ethPresent, ethAccounts, ethChain, ethKnown>>

\* a refresh that commits onto the Session of the render it was called in
RefreshCommitOntoSnapshot ==
  \E t \in Suspended("refreshNetwork", "getNetwork") :
    /\ state' = NetworkCommit(Connected(state.connector, t.provider, state.signer,
                                        state.account, state.chainId),
                              getNetwork(t.provider))
    /\ tasks' = Finish(t)
    /\ last' = Outcome("refreshNetwork", "ok")
    /\ UNCHANGED <<storage, listeners, ethPresent, ethAccounts, ethChain, ethKnown>>

\* lines 130-132: getNetwork() resolves
RefreshCommit ==
  \E t \in Suspended("refreshNetwork", "getNetwork") :
    /\ state' = NetworkCommit(state, getNetwork(t.provider))
    /\ tasks' = Finish(t)
    /\ last' = Outcome("refreshNetwork", "ok")
    /\ UNCHANGED <<storage, listeners, ethPresent, ethAccounts, ethChain, ethKnown>>

\* ----------------------------------------------------------- switchChain
\* lines 164-165 and 137-143: the injected branch, up to the switch request
SwitchChainInjected ==
  \E target \in Targets :
    /\ state.connector = "metamask"
    /\ IF ~ethPresent
         THEN /\ last' = Outcome("switchChain", "NO_INJECTED_PROVIDER")
              /\ UNCHANGED tasks
         ELSE /\ BagCardinality(tasks) < MaxTasks
              /\ tasks' = Spawn([NewTask("switchChain/metamask", "wallet_switchEthereumChain")
                                   EXCEPT !.target = target, !.provider = state.provider,
                                          !.reqs = <<"wallet_switchEthereumChain">>])
              /\ last' = Quiet
    /\ UNCHANGED <<state, storage, listeners, ethPresent, ethAccounts, ethChain, ethKnown>>

\* refreshNetwork as switchChain calls it (line 166), on the provider of its render
RefreshFrom(t) ==
  IF t.provider = NoProvider THEN [t EXCEPT !.pc = "return"] ELSE [t EXCEPT !.pc = "getNetwork"]

\* lines 140-143 resolve: the wallet moves to the chain
SwitchAccepted ==
  \E t \in Suspended("switchChain/metamask", "wallet_switchEthereumChain") :
    /\ t.target.id \in ethKnown
    /\ ethChain' = t.target.id
    /\ tasks' = Resume(t, RefreshFrom(t))
    /\ last' = Quiet
    /\ UNCHANGED <<state, storage, listeners, ethPresent, ethAccounts, ethKnown>>

\* a fallback that does not look at the target's RPC URLs
FallbackAnyTarget(code, target) == code = 4902

\* the switch error is one the add-chain fallback answers (line 145)
Fallback(code, target) == code = 4902 /\ Len(target.rpcUrls) # 0

\* lines 144-158: the request rejects with a code: 4001 the user's refusal,
\* 4902 a chain the wallet does not know
SwitchFailed(t, code) ==
  /\ code = 4902 <=> t.target.id \notin ethKnown
  /\ IF Fallback(code, t.target)
       THEN /\ tasks' = Resume(t, [t EXCEPT !.pc = "wallet_addEthereumChain", !.code = code,
                                      !.reqs = Append(t.reqs, "wallet_addEthereumChain")])
            /\ last' = Quiet
       ELSE /\ tasks' = Finish(t)
            /\ last' = Outcome("switchChain", "REQUEST_ERROR")
  /\ UNCHANGED <<state, storage, listeners, ethPresent, ethAccounts, ethChain, ethKnown>>

SwitchFails ==
  \E t \in Suspended("switchChain/metamask", "wallet_switchEthereumChain") :
  \E code \in {4001, 4902} : SwitchFailed(t, code)

\* lines 146-155 resolve: the wallet learns the chain and may move to it
AddAccept(t, chain) ==
  /\ ethKnown' = ethKnown \cup {t.target.id}
  /\ ethChain' = chain
  /\ tasks' = Resume(t, RefreshFrom(t))
  /\ last' = Quiet
  /\ UNCHANGED <<state, storage, listeners, ethPresent, ethAccounts>>

AddAccepted ==
  \E t \in Suspended("switchChain/metamask", "wallet_addEthereumChain") :
  \E chain \in {ethChain, t.target.id} : AddAccept(t, chain)

\* lines 146-155 reject
AddReject(t) ==
  /\ tasks' = Finish(t)
  /\ last' = Outcome("switchChain", "REQUEST_ERROR")
  /\ UNCHANGED <<state, storage, listeners, ethPresent, ethAccounts, ethChain, ethKnown>>

AddRejected ==
  \E t \in Suspended("switchChain/metamask", "wallet_addEthereumChain") : AddReject(t)

\* lines 130-132 and 167: the refresh commits and switchChain returns
SwitchInjectedCommit ==
  \E t \in InFlight("switchChain/metamask") :
    /\ t.pc \in {"getNetwork", "return"}
    /\ state' = IF t.pc = "getNetwork"
                THEN NetworkCommit(state, getNetwork(t.provider)) ELSE state
    /\ tasks' = Finish(t)
    /\ last' = Outcome("switchChain", "ok")
    /\ UNCHANGED <<storage, listeners, ethPresent, ethAccounts, ethChain, ethKnown>>

\* the first RPC URL taken without the check for a missing one
FirstRpcUrlUnchecked(target) ==
  IF Len(target.rpcUrls) = 0 THEN "undefined" ELSE target.rpcUrls[1]

\* target.rpcUrls?.[0]
FirstRpcUrl(target) == IF Len(target.rpcUrls) = 0 THEN "null" ELSE target.rpcUrls[1]

\* lines 169-175: the local-key branch, up to provider.getNetwork()
SwitchGuest(target) ==
  /\ state.connector = "guest"
  /\ IF FirstRpcUrl(target) = "null"
       THEN /\ last' = Outcome("switchChain", "RPC_URL_REQUIRED")
            /\ UNCHANGED tasks
       ELSE /\ BagCardinality(tasks) < MaxTasks
            /\ tasks' = Spawn([NewTask("switchChain/guest", "getNetwork") EXCEPT
                                 !.target = target, !.key = state.signer.key,
                                 !.provider = JsonRpcProvider(FirstRpcUrl(target))])
            /\ last' = Quiet
  /\ UNCHANGED <<state, storage, listeners, ethPresent, ethAccounts, ethChain, ethKnown>>

SwitchChainGuest == \E target \in Targets : SwitchGuest(target)

\* a switch that commits a whole new Session, as connectGuest does
ReboundWholeSession(s, provider, wallet, chainId) ==
  Connected("guest", provider, wallet, wallet.address, chainId)

\* lines 177-183: the functional update of the local-key switch
Rebound(s, provider, wallet, chainId) ==
  [s EXCEPT !.provider = provider, !.signer = wallet,
            !.chainId = chainId, !.chain = resolveChain(chainId)]

\* lines 175-184: getNetwork() resolves
SwitchGuestCommit ==
  \E t \in Suspended("switchChain/guest", "getNetwork") :
    /\ state' = Rebound(state, t.provider, Wallet(t.key, t.provider), getNetwork(t.provider))
    /\ tasks' = Finish(t)
    /\ last' = Outcome("switchChain", "ok")
    /\ UNCHANGED <<storage, listeners, ethPresent, ethAccounts, ethChain, ethKnown>>

\* line 186
SwitchChainUnsupported ==
  \E target \in Targets :
    /\ state.connector \notin {"metamask", "guest"}
    /\ last' = Outcome("switchChain", "UNSUPPORTED_CONNECTOR")
    /\ UNCHANGED <<state, storage, listeners, tasks, ethPresent, ethAccounts, ethChain, ethKnown>>

\* -------------------------------------------------------------- addChain
\* lines 190-201: the call and the wallet's answer; the Session is not read or
\* written on either side of the await
addChain ==
  \E id \in { params.id : params \in Targets } :
  \E result \in {"ok", "REQUEST_ERROR", "NO_INJECTED_PROVIDER"} :
  \E chain \in {ethChain, id} :
    /\ result = "NO_INJECTED_PROVIDER" <=> ~ethPresent
    /\ result # "ok" => chain = ethChain
    /\ ethKnown' = IF result = "ok" THEN ethKnown \cup {id} ELSE ethKnown
    /\ ethChain' = chain
    /\ last' = Quiet
    /\ UNCHANGED <<state, storage, listeners, tasks, ethPresent, ethAccounts>>

\* ---------------------------------------------------------- Event Bridge
\* lines 56-59 and 65: the wallet's accounts change and it notifies the listeners
AccountsChanged ==
  \E accounts \in AccountLists :
    /\ ethPresent
    /\ accounts # ethAccounts
    /\ ethAccounts' = accounts
    /\ state' = EmitAccounts(state, accounts)
    /\ last' = Quiet
    /\ UNCHANGED <<storage, listeners, tasks, ethPresent, ethChain, ethKnown>>

\* the user moves the wallet to another chain
WalletNetworkChanged ==
  \E chain \in ethKnown \ {ethChain} :
    /\ ethPresent
    /\ ethChain' = chain
    /\ last' = Quiet
    /\ UNCHANGED <<state, storage, listeners, tasks, ethPresent, ethAccounts, ethKnown>>

\* lines 60-61 and 66: a chainChanged notification reaches every bound listener
ChainChanged ==
  /\ listeners > 0
  /\ BagCardinality(tasks) + listeners <= MaxTasks
  /\ tasks' = tasks (+) Copies([NewTask("onChain", "getNetwork") EXCEPT
                                  !.provider = BrowserProvider], listeners)
  /\ last' = Quiet
  /\ UNCHANGED <<state, storage, listeners, ethPresent, ethAccounts, ethChain, ethKnown>>

\* lines 61-63: getNetwork() resolves
OnChainCommit ==
  \E t \in Suspended("onChain", "getNetwork") :
    /\ state' = NetworkCommit(state, getNetwork(t.provider))
    /\ tasks' = Finish(t)
    /\ last' = Quiet
    /\ UNCHANGED <<storage, listeners, ethPresent, ethAccounts, ethChain, ethKnown>>

\* ----------------------------------------------------- auto-connect effect
\* the slot as an earlier page load can have left it
StoredConnectors == {"null", "metamask", "guest"}

\* a provider as it mounts: the effect of lines 205-215 is about to run
Mount ==
  /\ state = InitialSession
  /\ storage \in StoredConnectors
  /\ listeners = 0
  /\ tasks = EmptyBag
  /\ ethPresent \in BOOLEAN
  /\ ethAccounts \in AccountLists
  /\ ethChain = 1
  /\ ethKnown = {1}
  /\ last = Quiet
  /\ autoConnect \in BOOLEAN
  /\ freshChains \in BOOLEAN
  /\ effectDue = TRUE
  /\ restores = 0

\* lines 205-215: the effect runs after a render that changed [autoConnect,
\* connectMetaMask]; connectMetaMask (lines 69-93) is rebuilt whenever
\* resolveChain is, and resolveChain (lines 49-52) whenever knownChains (line 30)
\* is a new array.  The call of line 210 runs connectMetaMask up to its first
\* await, and the catch keeps its error inside the effect.
autoConnectEffect ==
  /\ effectDue
  /\ IF autoConnect /\ storage = "metamask"
       THEN /\ restores < MaxRestores
            /\ restores' = restores + 1
            /\ effectDue' = freshChains
            /\ IF ~ethPresent
                 THEN /\ state' = NotFound(Connecting(state))
                      /\ UNCHANGED tasks
                 ELSE /\ BagCardinality(tasks) < MaxTasks
                      /\ listeners + Pending("connectMetaMask") < MaxListeners
                      /\ state' = Connecting(state)
                      /\ tasks' = Spawn(NewTask("connectMetaMask", "eth_requestAccounts"))
       ELSE /\ effectDue' = FALSE
            /\ UNCHANGED <<state, tasks, restores>>
  /\ last' = Quiet
  /\ UNCHANGED <<storage, listeners, ethPresent, ethAccounts, ethChain, ethKnown,
                 autoConnect, freshChains>>

\* a step of the provider and the render that follows it when it called
\* setState: the effect is due again when that render rebuilt connectMetaMask
Render(setsState) ==
  /\ effectDue' = (effectDue \/ (setsState /\ freshChains))
  /\ UNCHANGED <<autoConnect, freshChains, restores>>

\* with autoConnect = false no render makes the effect do anything
NoEffect == UNCHANGED <<autoConnect, freshChains, effectDue, restores>>

Next ==
  \/ ConnectMetaMask /\ NoEffect
  \/ RequestAccountsGranted /\ NoEffect
  \/ RequestAccountsRejected /\ NoEffect
  \/ GetSigner /\ NoEffect
  \/ GetSignerFails /\ NoEffect
  \/ NetworkFails /\ NoEffect
  \/ ConnectMetaMaskCommit /\ NoEffect
  \/ ConnectGuest /\ NoEffect
  \/ ConnectGuestCommit /\ NoEffect
  \/ disconnect /\ NoEffect
  \/ refreshNetwork /\ NoEffect
  \/ RefreshCommit /\ NoEffect
  \/ SwitchChainInjected /\ NoEffect
  \/ SwitchAccepted /\ NoEffect
  \/ SwitchFails /\ NoEffect
  \/ AddAccepted /\ NoEffect
  \/ AddRejected /\ NoEffect
  \/ SwitchInjectedCommit /\ NoEffect
  \/ SwitchChainGuest /\ NoEffect
  \/ SwitchGuestCommit /\ NoEffect
  \/ SwitchChainUnsupported /\ NoEffect
  \/ addChain /\ NoEffect
  \/ AccountsChanged /\ NoEffect
  \/ WalletNetworkChanged /\ NoEffect
  \/ ChainChanged /\ NoEffect
  \/ OnChainCommit /\ NoEffect

Spec == Init /\ [][Next]_vars

\* the provider from its mount on, with the auto-connect effect and the injected
\* connect it restores
RestoreNext ==
  \/ autoConnectEffect
  \/ ConnectMetaMask /\ Render(TRUE)
  \/ RequestAccountsGranted /\ Render(listeners > 0 /\ ethAccounts' # ethAccounts)
  \/ RequestAccountsRejected /\ Render(FALSE)
  \/ GetSigner /\ Render(FALSE)
  \/ GetSignerFails /\ Render(FALSE)
  \/ NetworkFails /\ Render(FALSE)
  \/ ConnectMetaMaskCommit /\ Render(TRUE)
  \/ disconnect /\ Render(TRUE)
  \/ AccountsChanged /\ Render(listeners > 0)

RestoreSpec == Mount /\ [][RestoreNext]_vars

\* ======================================================================
\* The claims
\* ======================================================================

ConnectsInFlight == Pending("connectMetaMask") + Pending("connectGuest")

\* C1: in every reachable state, status = connected exactly when signer and
\* account are both present.
C1_ConnectedIffSignerAndAccount ==
  (state.status = "connected") <=> (state.signer # NoSigner /\ state.account # "null")

\* C2: a connect that fails after it set status = connecting ends with
\* status = disconnected, and status = connecting is never left behind once no
\* connect operation is in flight.
C2_FailedConnectDisconnects ==
  /\ (last.op \in {"connectMetaMask", "connectGuest"} /\ last.result # "ok")
       => state.status = "disconnected"
  /\ state.status = "connecting" => ConnectsInFlight > 0

\* C3: in every reachable state chain is the directory entry whose id is
\* chainId, and it is absent when chainId is absent or not in the directory.
C3_ChainIsLookup ==
  /\ \A i \in DOMAIN knownChains :
       knownChains[i].id = state.chainId => state.chain = knownChains[i]
  /\ (\A i \in DOMAIN knownChains : knownChains[i].id # state.chainId)
       => state.chain = NoChain

\* a session that moved to a chain beyond the first directory entry, and one
\* on a chain the directory does not hold
C3_Witness ==
  /\ state.status = "connected"
  /\ state.chainId = knownChains[2].id
  /\ state.chain = knownChains[2]

\* C4: disconnect() raises no error from any state and yields the initial
\* Session and an empty persisted slot, also when called twice in a row.
C4_DisconnectResets ==
  /\ ENABLED disconnect
  /\ last.op = "disconnect"
       => /\ last.result = "ok"
          /\ state = InitialSession
          /\ storage = "null"

\* disconnect() has just returned for the second time in a row, with
\* listeners of an earlier injected session still in place
C4_Witness ==
  /\ last.op = "disconnect"
  /\ last.again
  /\ listeners > 0

\* C5: after disconnect() returns, an accounts-changed notification changes no
\* field of the Session (the listeners of the previous session are gone).
C5_NoNotificationAfterDisconnect ==
  [][(last.op = "disconnect" /\ AccountsChanged) => state' = state]_vars
\* C6: while connector = local-key, no accounts-changed or chain-changed
\* notification modifies the Session.
C6_GuestIgnoresNotifications ==
  [][(state.connector = "guest" /\ (AccountsChanged \/ OnChainCommit)) => state' = state]_vars

\* C7: a successful switchNetwork on a local-key session replaces provider,
\* signer, chainId and chain only; the new signer holds the key the signer had
\* when the call was made, bound to the provider of target.rpcUrls[0], and
\* chainId is the chain id that provider reports.
C7_GuestSwitchFrame ==
  [][ /\ \A target \in Targets :
           (SwitchGuest(target) /\ tasks' # tasks)
             => \E t \in BagToSet(tasks') :
                  /\ tasks' = Spawn(t)
                  /\ t.target = target
                  /\ t.key = state.signer.key
                  /\ state.signer.kind = "Wallet"
      /\ \A t \in Suspended("switchChain/guest", "getNetwork") :
           (SwitchGuestCommit /\ tasks' = Finish(t))
             => /\ state'.status = state.status
                /\ state'.connector = state.connector
                /\ state'.account = state.account
                /\ state'.provider = JsonRpcProvider(t.target.rpcUrls[1])
                /\ state'.signer.kind = "Wallet"
                /\ state'.signer.key = t.key
                /\ state'.signer.provider = state'.provider
                /\ state'.chainId = RpcChainId(t.target.rpcUrls[1])
                /\ last'.op = "switchChain" /\ last'.result = "ok" ]_vars

\* the session of key K2, connected on rpc.b, after a switch to the target of
\* rpc.a: same key and account, new provider and chain
C7_Witness ==
  /\ last.op = "switchChain" /\ last.result = "ok"
  /\ state.status = "connected" /\ state.connector = "guest"
  /\ state.signer = Wallet("K2", JsonRpcProvider("https://rpc.a"))
  /\ state.account = Derive("K2")
  /\ state.provider = JsonRpcProvider("https://rpc.a")
  /\ state.chainId = 1

\* C8: a local-key switchNetwork whose provider reports a chain id other than
\* target.id fails with CHAIN_ID_MISMATCH and leaves the Session unchanged.
C8_GuestSwitchValidatesChainId ==
  [][\A t \in Suspended("switchChain/guest", "getNetwork") :
       (SwitchGuestCommit /\ tasks' = Finish(t) /\ getNetwork(t.provider) # t.target.id)
         => (last'.result = "CHAIN_ID_MISMATCH" /\ state' = state)]_vars

\* C9: switchNetwork on a local-key session with an empty target.rpcUrls fails
\* with RPC_URL_REQUIRED, starts no network read and leaves the Session as it was.
C9_RpcUrlRequired ==
  [][\A target \in Targets :
       (SwitchGuest(target) /\ Len(target.rpcUrls) = 0)
         => /\ last'.op = "switchChain" /\ last'.result = "RPC_URL_REQUIRED"
            /\ tasks' = tasks
            /\ state' = state]_vars

\* switchNetwork has just thrown RPC_URL_REQUIRED on a connected local-key session
C9_Witness ==
  /\ last.op = "switchChain" /\ last.result = "RPC_URL_REQUIRED"
  /\ state.status = "connected" /\ state.connector = "guest"
  /\ tasks = EmptyBag

AddIssuedFor(t, bag) ==
  \E u \in BagToSet(bag) :
    /\ u.pc = "wallet_addEthereumChain"
    /\ u.target = t.target
    /\ u.reqs = <<"wallet_switchEthereumChain", "wallet_addEthereumChain">>
    /\ bag = Resume(t, u)

ChainUpdatesInFlight(bag) ==
  { t \in BagToSet(bag) : t.kind \in {"onChain", "switchChain/metamask"} }

\* C11: a chain-changed notification that arrives while an injected
\* switchNetwork is in flight is not lost: whichever of the two updates
\* completes last commits the chain the injected interface is on at that
\* moment, so once both have completed chainId is that chain and never an
\* older value.
C11_NotificationNotLost ==
  [][\A t \in ChainUpdatesInFlight(tasks) :
       ( /\ OnChainCommit \/ SwitchInjectedCommit
         /\ tasks' = Finish(t)
         /\ ChainUpdatesInFlight(tasks') = {} )
         => state'.chainId = ethChain]_vars

\* C12: connectInjected() with no injected interface reachable fails with
\* METAMASK_NOT_FOUND, sends no request, registers no listener and leaves the
\* persisted slot alone; called on the initial Session it leaves the initial
\* Session.
C12_InjectedUnavailable ==
  [][(ConnectMetaMask /\ ~ethPresent)
       => /\ last'.op = "connectMetaMask" /\ last'.result = "METAMASK_NOT_FOUND"
          /\ tasks' = tasks
          /\ listeners' = listeners
          /\ storage' = storage
          /\ state = InitialSession => state' = InitialSession]_vars

\* connectInjected() has just failed on a fresh provider without a wallet
C12_Witness ==
  /\ ~ethPresent
  /\ last.op = "connectMetaMask" /\ last.result = "METAMASK_NOT_FOUND"
  /\ state = InitialSession
  /\ storage = "null" /\ listeners = 0 /\ tasks = EmptyBag

\* C13: in every reachable state signer and account are both present or both
\* absent, and provider is present whenever either of them is.
C13_SignerAndAccountTogether ==
  /\ (state.signer # NoSigner) <=> (state.account # "null")
  /\ (state.signer # NoSigner \/ state.account # "null") => state.provider # NoProvider

\* C14: whenever signer and account are both present, the address the signer
\* signs for is Session.account (an accounts-changed notification re-fetches
\* both).
C14_SignerSignsForAccount ==
  (state.signer # NoSigner /\ state.account # "null")
    => state.signer.address = state.account

\* C15: at any time at most one connectInjected / connectLocalKey operation
\* is in flight.
C15_OneConnectInFlight == ConnectsInFlight <= 1

\* C16: refreshNetwork() leaves the Session unchanged and reads nothing when
\* no provider is active; otherwise it reads the chain id from the provider
\* that is active at the call and its commit changes only chainId and chain,
\* leaving status, connector, provider, signer and account as they are in the
\* Session it commits onto.
C16_RefreshNetworkFrame ==
  [][ /\ refreshNetwork
           => /\ state' = state
              /\ IF state.provider = NoProvider
                   THEN /\ tasks' = tasks
                        /\ last'.op = "refreshNetwork" /\ last'.result = "ok"
                   ELSE \E t \in BagToSet(tasks') :
                          /\ tasks' = Spawn(t)
                          /\ t.kind = "refreshNetwork" /\ t.pc = "getNetwork"
                          /\ t.provider = state.provider
      /\ \A t \in Suspended("refreshNetwork", "getNetwork") :
           (RefreshCommit /\ tasks' = Finish(t))
             => /\ state'.chainId = getNetwork(t.provider)
                /\ state'.chain = resolveChain(state'.chainId)
                /\ state'.status = state.status
                /\ state'.connector = state.connector
                /\ state'.provider = state.provider
                /\ state'.signer = state.signer
                /\ state'.account = state.account ]_vars

\* refreshNetwork() has just committed the chain the wallet moved to onto a
\* Session that disconnect() emptied while the read was pending
C16_Witness ==
  /\ last.op = "refreshNetwork" /\ last.result = "ok"
  /\ state.status = "disconnected" /\ state.provider = NoProvider
  /\ state.chainId = knownChains[2].id

\* C17: the persisted slot is written in the step of every successful connect
\* commit and cleared in the step of disconnect, no other step writes it or
\* changes the connector, and a failed connect leaves it alone: from the first
\* successful connect or disconnect on, the slot holds Session.connector.
C17_SlotFollowsConnector ==
  [][ /\ (ConnectMetaMaskCommit \/ ConnectGuestCommit \/ disconnect)
           => storage' = state'.connector
      /\ (storage = state.connector) => (storage' = state'.connector)
      /\ (storage' # storage \/ state'.connector # state.connector)
           => (ConnectMetaMaskCommit \/ ConnectGuestCommit \/ disconnect)
      /\ (last'.op \in {"connectMetaMask", "connectGuest"} /\ last'.result # "ok")
           => storage' = storage ]_vars

\* an injected connect has just failed on a connected local-key Session: the
\* slot still names the local-key connector
C17_Witness ==
  /\ last.op = "connectMetaMask" /\ last.result = "USER_REJECTED"
  /\ state.connector = "guest"
  /\ storage = "guest"

\* C18: the startup auto-restore calls connectInjected only when autoConnect
\* is set and the persisted slot holds the injected identity, at most once per
\* mount of the provider; it starts nothing but an injected connect, and no
\* error leaves it.
C18_RestoreOncePerMount ==
  [][autoConnectEffect
       => /\ (restores' # restores \/ state' # state \/ tasks' # tasks)
               => (autoConnect /\ storage = "metamask" /\ restores = 0)
          /\ \A t \in BagToSet(tasks') \ BagToSet(tasks) : t.kind = "connectMetaMask"
          /\ last' = Quiet]_vars

C20_OneListenerPair == listeners <= 1

====
